---- MODULE Spec2Model ----
(***************************************************************************)
(* Path-addressing primitives of the form-state library: the path resolver *)
(* (_get, _update, deepSet) and the key-capture proxies (keysProxy,        *)
(* createDraftProxy).                                                      *)
(*                                                                         *)
(* A JavaScript string is a sequence of one-character strings.  A          *)
(* JavaScript value is a record tagged by its type; a container carries    *)
(* the map m of its own properties (property keys are strings).  Objects   *)
(* live in named memory cells, and a reference is a cell plus the path of  *)
(* the object inside that cell, so that aliasing and copying are visible.  *)
(***************************************************************************)
EXTENDS Integers, Sequences, FiniteSets, TLC

VARIABLES rawData, initialData, pc, last, used

vars == <<rawData, initialData, pc, last, used>>

(***************************************************************************)
(* Strings                                                                 *)
(***************************************************************************)
Digits == {"0", "1", "2", "3", "4", "5", "6", "7", "8", "9"}

DigitValue == ("0" :> 0) @@ ("1" :> 1) @@ ("2" :> 2) @@ ("3" :> 3) @@ ("4" :> 4)
              @@ ("5" :> 5) @@ ("6" :> 6) @@ ("7" :> 7) @@ ("8" :> 8) @@ ("9" :> 9)

DigitChar == <<"0", "1", "2", "3", "4", "5", "6", "7", "8", "9">>

\* The value NaN of the number type (numbers of the model are naturals).
NaN == -1

RECURSIVE DecimalValue(_)
DecimalValue(s) ==
  IF s = <<>> THEN 0
  ELSE 10 * DecimalValue(SubSeq(s, 1, Len(s) - 1)) + DigitValue[s[Len(s)]]

\* Unary plus on a string: the empty string is 0, a run of decimal digits is
\* its value (leading zeros allowed), any string with another character of
\* the model's alphabet is NaN.
ToNumber(s) ==
  IF s = <<>> THEN 0
  ELSE IF \A i \in 1..Len(s) : s[i] \in Digits THEN DecimalValue(s)
  ELSE NaN

isNaN(n) == n = NaN

\* Number to string, as a property key: the canonical decimal numeral.
RECURSIVE NumberToString(_)
NumberToString(n) ==
  IF n < 10 THEN <<DigitChar[n + 1]>>
  ELSE NumberToString(n \div 10) \o <<DigitChar[(n % 10) + 1]>>

\* String.prototype.split with a pattern matching exactly one character of
\* the class D: every delimiter cuts, empty pieces are kept.
RECURSIVE SplitFrom(_, _, _, _)
SplitFrom(s, D, i, cur) ==
  IF i > Len(s) THEN <<cur>>
  ELSE IF s[i] \in D THEN <<cur>> \o SplitFrom(s, D, i + 1, <<>>)
  ELSE SplitFrom(s, D, i + 1, Append(cur, s[i]))

split(s, D) == SplitFrom(s, D, 1, <<>>)

\* Array.prototype.filter(Boolean) on a list of strings: drops the empty ones.
filterBoolean(l) == SelectSeq(l, LAMBDA k : k # <<>>)

\* Array.prototype.join.
RECURSIVE join(_, _)
join(l, sep) ==
  IF l = <<>> THEN <<>>
  ELSE IF Len(l) = 1 THEN l[1]
  ELSE l[1] \o sep \o join(Tail(l), sep)

(***************************************************************************)
(* Paths: a string, or an array of keys (Array.isArray tells them apart).  *)
(***************************************************************************)
StringPath(s) == [isArray |-> FALSE, s |-> s]
ArrayPath(l) == [isArray |-> TRUE, l |-> l]

\* String(path): an array converts to its elements joined by commas.
PathToString(path) == IF path.isArray THEN join(path.l, <<",">>) ELSE path.s

(***************************************************************************)
(* Values                                                                  *)
(***************************************************************************)
Undefined == [t |-> "undefined"]
Null == [t |-> "null"]
JSNumber(n) == [t |-> "number", v |-> NumberToString(n)]
JSString(s) == [t |-> "string", v |-> s]
EmptyMap == <<>>
Object(m) == [t |-> "object", m |-> m]
Array(m) == [t |-> "array", m |-> m]
EmptyObject == Object(EmptyMap)
EmptyArray == Array(EmptyMap)

IsContainer(v) == v.t \in {"object", "array"}
IsNullish(v) == v.t \in {"undefined", "null"}

\* ToBoolean.
Truthy(v) ==
  CASE v.t \in {"undefined", "null"} -> FALSE
    [] v.t = "number" -> v.v # <<"0">>
    [] v.t = "string" -> v.v # <<>>
    [] OTHER -> TRUE

\* A key that is a canonical array index: "0", "1", "2", ... without leading zeros.
IsIndex(k) == k # <<>> /\ ~isNaN(ToNumber(k)) /\ NumberToString(ToNumber(k)) = k

\* The own property k of a tree (not a reference): undefined when absent.
\* A string has its characters as index properties.
Prop(tree, k) ==
  CASE IsContainer(tree) -> IF k \in DOMAIN tree.m THEN tree.m[k] ELSE Undefined
    [] tree.t = "string" ->
         IF IsIndex(k) /\ ToNumber(k) < Len(tree.v)
         THEN JSString(<<tree.v[ToNumber(k) + 1]>>)
         ELSE Undefined
    [] OTHER -> Undefined

\* The tree with own property k set to v (tree is a container).
WithProp(tree, k, v) ==
  [tree EXCEPT !.m = [x \in (DOMAIN tree.m) \cup {k} |-> IF x = k THEN v ELSE tree.m[x]]]

\* The subtree at a path of own properties.
RECURSIVE Lookup(_, _)
Lookup(tree, path) ==
  IF path = <<>> THEN tree ELSE Lookup(Prop(tree, path[1]), Tail(path))

\* The tree with the subtree at path (every node on the way a container) replaced.
RECURSIVE Replace(_, _, _)
Replace(tree, path, sub) ==
  IF path = <<>> THEN sub
  ELSE WithProp(tree, path[1], Replace(Prop(tree, path[1]), Tail(path), sub))

(***************************************************************************)
(* Memory: cells holding trees; a reference names an object in a cell.     *)
(***************************************************************************)
Ref(cell, path) == [t |-> "ref", cell |-> cell, path |-> path]
IsRef(rv) == rv.t = "ref"

\* The runtime value of a tree stored at (cell, path): a container is held
\* by reference, a primitive by value.
Held(tree, cell, path) == IF IsContainer(tree) THEN Ref(cell, path) ELSE tree

\* The tree a runtime value stands for.
Deref(mem, rv) == IF IsRef(rv) THEN Lookup(mem[rv.cell], rv.path) ELSE rv

\* x[k] for a runtime value x that is not null or undefined.
Read(mem, x, k) ==
  IF IsRef(x)
  THEN Held(Prop(Deref(mem, x), k), x.cell, Append(x.path, k))
  ELSE Prop(x, k)

\* mem after x[k] = v for a reference x; v is a primitive or a fresh tree.
Write(mem, x, k, v) ==
  [mem EXCEPT ![x.cell] = Replace(mem[x.cell], Append(x.path, k), v)]

\* In a module (strict mode) x[k] = v throws a TypeError unless x is an object.
CanWrite(x) == IsRef(x)

(***************************************************************************)
(* Path resolver, immutable write: utils/_update.ts                        *)
(***************************************************************************)
_isRecord(value) == value.t = "object"

_isPrimitive(value) == ~_isRecord(value) /\ ~(value.t = "array")

\* A clone that is no clone: the very object is handed back.  C6 must tell
\* it from structuredClone.
sameObject(mem, rv) == [mem |-> mem, rv |-> rv]

\* structuredClone: a deep copy in a cell of its own; a primitive is itself.
structuredClone(mem, rv) ==
  IF IsRef(rv)
  THEN [mem |-> ("copy" :> Deref(mem, rv)) @@ mem, rv |-> Ref("copy", <<>>)]
  ELSE [mem |-> mem, rv |-> rv]

\* path.match(/[^.[\]]+/g) || []: the maximal runs of characters other than
\* '.', '[' and ']'.
matchSections(s) == filterBoolean(split(s, {".", "[", "]"}))

\* The loop with the two containers exchanged: a mapping before a numeric
\* key, a sequence before any other.  C3 must tell it from _updateLoop.
RECURSIVE _updateLoopExchanged(_, _, _, _, _)
_updateLoopExchanged(mem, property, splitPath, i, value) ==
  IF i >= Len(splitPath)
  THEN IF CanWrite(property)
       THEN [mem |-> Write(mem, property, splitPath[Len(splitPath)], value), threw |-> FALSE]
       ELSE [mem |-> mem, threw |-> TRUE]
  ELSE LET section == splitPath[i]
           primitive == _isPrimitive(Deref(mem, Read(mem, property, section)))
       IN IF primitive /\ ~CanWrite(property)
          THEN [mem |-> mem, threw |-> TRUE]
          ELSE LET mem2 == IF primitive
                           THEN Write(mem, property, section,
                                      IF isNaN(ToNumber(splitPath[i + 1]))
                                      THEN EmptyArray ELSE EmptyObject)
                           ELSE mem
               IN _updateLoopExchanged(mem2, Read(mem2, property, section), splitPath, i + 1, value)

\* The for loop of _update from index i (1-based) on, and the final
\* assignment property[lastSection] = value.
RECURSIVE _updateLoop(_, _, _, _, _)
_updateLoop(mem, property, splitPath, i, value) ==
  IF i >= Len(splitPath)
  THEN IF CanWrite(property)
       THEN [mem |-> Write(mem, property, splitPath[Len(splitPath)], value), threw |-> FALSE]
       ELSE [mem |-> mem, threw |-> TRUE]
  ELSE LET section == splitPath[i]
           primitive == _isPrimitive(Deref(mem, Read(mem, property, section)))
       IN IF primitive /\ ~CanWrite(property)
          THEN [mem |-> mem, threw |-> TRUE]
          ELSE LET mem2 == IF primitive
                           THEN Write(mem, property, section,
                                      IF isNaN(ToNumber(splitPath[i + 1]))
                                      THEN EmptyObject ELSE EmptyArray)
                           ELSE mem
               IN _updateLoop(mem2, Read(mem2, property, section), splitPath, i + 1, value)

\* _update(obj, path, value) in memory mem: the memory after the call, the
\* returned root and whether the call threw.
_update(mem, obj, path, value) ==
  LET mem1 == IF IsNullish(obj) THEN ("literal" :> EmptyObject) @@ mem ELSE mem
      arg == IF IsNullish(obj) THEN Ref("literal", <<>>) ELSE obj
      c == structuredClone(mem1, arg)
      copy == c.rv
      splitPath == IF ~path.isArray THEN matchSections(path.s) ELSE path.l
      noLastSection == splitPath = <<>> \/ splitPath[Len(splitPath)] = <<>>
  IN IF noLastSection
     THEN [mem |-> c.mem, ret |-> copy, threw |-> FALSE]
     ELSE LET r == _updateLoop(c.mem, copy, splitPath, 1, value)
          IN [mem |-> r.mem, ret |-> copy, threw |-> r.threw]

(***************************************************************************)
(* Path resolver, read: utils/_get.ts (and get of lib/index.ts)            *)
(***************************************************************************)
\* The reduce of travel: descend while the node is neither null nor undefined.
RECURSIVE reduceKeys(_, _, _)
reduceKeys(mem, res, keys) ==
  IF keys = <<>> THEN res
  ELSE reduceKeys(mem, IF ~IsNullish(res) THEN Read(mem, res, keys[1]) ELSE res, Tail(keys))

travel(mem, obj, path, D) ==
  reduceKeys(mem, obj, filterBoolean(split(PathToString(path), D)))

_get(mem, obj, path, defaultValue) ==
  LET first == travel(mem, obj, path, {",", "[", "]"})
      result == IF Truthy(first) THEN first
                ELSE travel(mem, obj, path, {",", "[", "]", "."})
  IN IF result = Undefined \/ result = obj THEN defaultValue ELSE result

(***************************************************************************)
(* Path resolver, mutable write: deepSet of lib/index.ts                   *)
(***************************************************************************)
\* k => isNaN(+k) ? k : +k, the key kept with the string it addresses.
deepKey(k) ==
  IF isNaN(ToNumber(k)) THEN [isNumber |-> FALSE, key |-> k]
  ELSE [isNumber |-> TRUE, key |-> NumberToString(ToNumber(k))]

deepKeys(s) == LET parts == split(s, {"."}) IN [i \in 1..Len(parts) |-> deepKey(parts[i])]

\* The for loop of deepSet from index i (1-based) on, and the final
\* assignment current[lastKey] = value.
RECURSIVE deepSetLoop(_, _, _, _, _)
deepSetLoop(mem, current, keys, i, value) ==
  IF i >= Len(keys)
  THEN IF CanWrite(current)
       THEN [mem |-> Write(mem, current, keys[Len(keys)].key, value), threw |-> FALSE]
       ELSE [mem |-> mem, threw |-> TRUE]
  ELSE IF IsNullish(current) THEN [mem |-> mem, threw |-> TRUE]
  ELSE LET k == keys[i].key
           missing == IsNullish(Read(mem, current, k))
       IN IF missing /\ ~CanWrite(current)
          THEN [mem |-> mem, threw |-> TRUE]
          ELSE LET mem2 == IF missing
                           THEN Write(mem, current, k,
                                      IF keys[i + 1].isNumber THEN EmptyArray ELSE EmptyObject)
                           ELSE mem
               IN deepSetLoop(mem2, Read(mem2, current, k), keys, i + 1, value)

\* deepSet(obj, path, value): the default parameter replaces undefined only.
deepSet(mem, obj, s, value) ==
  LET mem1 == IF obj = Undefined THEN ("literal" :> EmptyObject) @@ mem ELSE mem
      arg == IF obj = Undefined THEN Ref("literal", <<>>) ELSE obj
      r == deepSetLoop(mem1, arg, deepKeys(s), 1, value)
  IN [mem |-> r.mem, ret |-> arg, threw |-> r.threw]

(***************************************************************************)
(* Key-capture proxy, key-only variant: lib/proxy.ts                       *)
(* An accessor is the pair its closure holds: object and properties.       *)
(***************************************************************************)
\* The get trap of keysProxy: the first accessor, bound to the chain [p].
keysProxyGet(object, p) == [object |-> object, properties |-> <<p>>]

\* The get trap of innerKeysProxy:
\*   object[last] ??= isNaN(+p.toString()) ? {} : []
\*   return innerKeysProxy(object[last], [...properties, p])
innerKeysProxyGet(mem, acc, p) ==
  LET lastProperty == acc.properties[Len(acc.properties)]
      stay == [mem |-> mem, acc |-> acc, threw |-> TRUE]
  IN IF IsNullish(acc.object) THEN stay
     ELSE LET missing == IsNullish(Read(mem, acc.object, lastProperty))
          IN IF missing /\ ~CanWrite(acc.object) THEN stay
             ELSE LET mem2 == IF missing
                              THEN Write(mem, acc.object, lastProperty,
                                         IF isNaN(ToNumber(p)) THEN EmptyObject ELSE EmptyArray)
                              ELSE mem
                  IN [mem |-> mem2,
                      acc |-> [object |-> Read(mem2, acc.object, lastProperty),
                               properties |-> Append(acc.properties, p)],
                      threw |-> FALSE]

\* The apply trap of innerKeysProxy.
innerKeysProxyApply(acc) == acc.properties

\* Property accesses chain[i], chain[i+1], ... on the accessor acc.
RECURSIVE keysProxyChain(_, _, _, _)
keysProxyChain(mem, acc, chain, i) ==
  IF i > Len(chain) THEN [mem |-> mem, acc |-> acc, threw |-> FALSE]
  ELSE LET g == innerKeysProxyGet(mem, acc, chain[i])
       IN IF g.threw THEN g ELSE keysProxyChain(g.mem, g.acc, chain, i + 1)

\* callback(keysProxy(object))() for the callback accessing chain (non-empty).
keysGetter(mem, object, chain) ==
  LET c == keysProxyChain(mem, keysProxyGet(object, chain[1]), chain, 2)
  IN [mem |-> c.mem, threw |-> c.threw,
      keys |-> IF c.threw THEN <<>> ELSE innerKeysProxyApply(c.acc)]

(***************************************************************************)
(* Key-capture proxy, read-write variant: createDraftProxy of lib/index.ts *)
(* and its earlier version.  An accessor is the pair prev and keys.        *)
(***************************************************************************)
\* The get trap of createDraftProxy.
createDraftProxyGet(y, prop) == [prev |-> y, keys |-> <<prop>>]

\* A get trap that assigns where createInnerProxy assigns only if the key is
\* null or undefined (= for ??=).  C9 must tell it from createInnerProxyGet.
createInnerProxyGetAssigning(mem, acc, prop) ==
  LET lastKey == acc.keys[Len(acc.keys)]
      stay == [mem |-> mem, acc |-> acc, threw |-> TRUE]
  IN IF ~CanWrite(acc.prev) THEN stay
     ELSE LET mem2 == Write(mem, acc.prev, lastKey,
                            IF isNaN(ToNumber(prop)) THEN EmptyObject ELSE EmptyArray)
          IN [mem |-> mem2,
              acc |-> [prev |-> Read(mem2, acc.prev, lastKey),
                       keys |-> Append(acc.keys, prop)],
              threw |-> FALSE]

\* The get trap of createInnerProxy.
createInnerProxyGet(mem, acc, prop) ==
  LET lastKey == acc.keys[Len(acc.keys)]
      stay == [mem |-> mem, acc |-> acc, threw |-> TRUE]
  IN IF IsNullish(acc.prev) THEN stay
     ELSE LET missing == IsNullish(Read(mem, acc.prev, lastKey))
          IN IF missing /\ ~CanWrite(acc.prev) THEN stay
             ELSE LET mem2 == IF missing
                              THEN Write(mem, acc.prev, lastKey,
                                         IF isNaN(ToNumber(prop)) THEN EmptyObject ELSE EmptyArray)
                              ELSE mem
                  IN [mem |-> mem2,
                      acc |-> [prev |-> Read(mem2, acc.prev, lastKey),
                               keys |-> Append(acc.keys, prop)],
                      threw |-> FALSE]

\* The apply trap of createInnerProxy with first argument arg (undefined when
\* invoked without one).  With a defined argument both versions assign and
\* return keys; without one lib/index.ts returns prev[lastKey] and the
\* earlier version returns keys.
createInnerProxyApply(mem, acc, arg, earlier) ==
  LET lastKey == acc.keys[Len(acc.keys)]
  IN IF arg # Undefined
     THEN IF CanWrite(acc.prev)
          THEN [mem |-> Write(mem, acc.prev, lastKey, arg), threw |-> FALSE,
                isKeys |-> TRUE, keys |-> acc.keys, ret |-> Undefined]
          ELSE [mem |-> mem, threw |-> TRUE, isKeys |-> FALSE, keys |-> <<>>, ret |-> Undefined]
     ELSE IF earlier
          THEN [mem |-> mem, threw |-> FALSE, isKeys |-> TRUE, keys |-> acc.keys, ret |-> Undefined]
          ELSE IF IsNullish(acc.prev)
               THEN [mem |-> mem, threw |-> TRUE, isKeys |-> FALSE, keys |-> <<>>, ret |-> Undefined]
               ELSE [mem |-> mem, threw |-> FALSE, isKeys |-> FALSE, keys |-> <<>>,
                     ret |-> Read(mem, acc.prev, lastKey)]

RECURSIVE createInnerProxyChain(_, _, _, _)
createInnerProxyChain(mem, acc, chain, i) ==
  IF i > Len(chain) THEN [mem |-> mem, acc |-> acc, threw |-> FALSE]
  ELSE LET g == createInnerProxyGet(mem, acc, chain[i])
       IN IF g.threw THEN g ELSE createInnerProxyChain(g.mem, g.acc, chain, i + 1)

\* draftCallback(createDraftProxy(y))(arg) for the callback accessing chain.
draftCall(mem, y, chain, arg, earlier) ==
  LET c == createInnerProxyChain(mem, createDraftProxyGet(y, chain[1]), chain, 2)
  IN IF c.threw
     THEN [mem |-> c.mem, threw |-> TRUE, isKeys |-> FALSE, keys |-> <<>>, ret |-> Undefined]
     ELSE createInnerProxyApply(c.mem, c.acc, arg, earlier)

(***************************************************************************)
(* Bounded inputs                                                          *)
(***************************************************************************)
\* The number of keys the writing calls of one run may pass in all (a call
\* is charged for the keys of its path, and for one key when its path has
\* none); the path or chain of any call has at most the keys left.
MaxKeys == 3

a == <<"a">>
b == <<"b">>
user == <<"u", "s", "e", "r">>
name == <<"n", "a", "m", "e">>
first == <<"f", "i", "r", "s", "t">>

\* Keys of resolver paths: member names, an index, a numeral with a leading
\* zero, a name ending in a digit, a name holding a comma.
Keys == {a, b, <<"0">>, <<"0", "1">>, <<"a", ",", "b">>}

\* Property names accessed on the proxies.
ProxyKeys == {user, name, first, <<"0">>}

\* "a.0.b"
Dotted(ks) == join(ks, <<".">>)

\* "a[0].b": a key of digits in brackets, any other key after a dot.
RECURSIVE Bracketed(_)
Bracketed(ks) ==
  IF ks = <<>> THEN <<>>
  ELSE IF Len(ks) = 1 THEN ks[1]
  ELSE LET front == Bracketed(SubSeq(ks, 1, Len(ks) - 1))
           k == ks[Len(ks)]
       IN IF k # <<>> /\ \A i \in 1..Len(k) : k[i] \in Digits
          THEN front \o <<"[">> \o k \o <<"]">>
          ELSE front \o <<".">> \o k

\* The ways a caller writes the key list ks as a path.
PathsOf(ks) == {StringPath(Dotted(ks)), StringPath(Bracketed(ks)), ArrayPath(ks)}

\* The paths and dotted strings handed to the resolver, the chains accessed
\* on the proxies.
Paths == [n \in 0..MaxKeys |-> UNION {PathsOf(ks) : ks \in [1..n -> Keys]}]
DottedPaths == [n \in 0..MaxKeys |-> {Dotted(ks) : ks \in [1..n -> Keys]}]
Chains == [n \in 1..MaxKeys |-> [1..n -> ProxyKeys]]

Values == {JSNumber(0), JSString(<<"x">>)}

DefaultValues == {Undefined, JSString(<<"D">>)}

Arguments == {JSNumber(0), JSString(<<"A", "n", "n">>)}

\* The initialData option of createForm.
InitialTargets ==
  { Undefined, Null, EmptyObject,
    Object(a :> JSNumber(5)),
    Object(a :> Null),
    Object(a :> Object(b :> JSString(<<"x">>))),
    Object(a :> Array(<<"0">> :> Object(b :> JSString(<<"x">>)))) }

\* The objects a proxy is bound to: the value of a store that was never
\* set, an empty store, the errors list, and data with leaves on the way.
ProxyTargets ==
  { Undefined, EmptyObject, EmptyArray,
    Object(user :> JSNumber(5)),
    Object(user :> Null),
    Object(user :> Object(name :> Object(first :> JSString(<<"x">>)))),
    Object(user :> Array(<<"0">> :> Object(name :> JSString(<<"x">>)))) }

(***************************************************************************)
(* The form store and the calls made on its data                           *)
(***************************************************************************)
NoCall ==
  [fn |-> "none", target |-> Undefined, path |-> StringPath(<<>>), chain |-> <<>>,
   value |-> Undefined, threw |-> FALSE, ret |-> Undefined, out |-> Undefined,
   arg |-> Undefined, isKeys |-> FALSE, keys |-> <<>>, earlier |-> FALSE,
   prev |-> Undefined]

\* The memory of a call on the store's data: the data object in its own cell.
DataMem == ("data" :> rawData)
DataRef == Held(rawData, "data", <<>>)

Charge(n) == IF n = 0 THEN 1 ELSE n

\* The store holds options.initialData as it was given (writable(initialData)
\* in lib/index.ts; in deepFind.ts after reset, which stores _initialData).
Init ==
  /\ initialData \in InitialTargets
  /\ rawData = initialData
  /\ pc = "idle"
  /\ last = NoCall
  /\ used = 0

InitProxy ==
  /\ initialData \in ProxyTargets
  /\ rawData = initialData
  /\ pc = "idle"
  /\ last = NoCall
  /\ used = 0

\* rawData.update((currentData) => _update(currentData, key, value))
Update(n, path, value) ==
  /\ pc = "idle"
  /\ \E r \in {_update(DataMem, DataRef, path, value)} :
        /\ rawData' = IF r.threw THEN r.mem["data"] ELSE Deref(r.mem, r.ret)
        /\ last' = [NoCall EXCEPT !.fn = "_update", !.target = rawData, !.path = path,
                                  !.value = value, !.threw = r.threw,
                                  !.ret = IF r.threw THEN Undefined ELSE r.ret,
                                  !.out = IF r.threw THEN Undefined ELSE Deref(r.mem, r.ret),
                                  !.arg = r.mem["data"]]
  /\ pc' = "called"
  /\ used' = used + Charge(n)
  /\ UNCHANGED initialData

\* data.update(current => deepSet(current, name, value))
DeepSet(n, s, value) ==
  /\ pc = "idle"
  /\ \E r \in {deepSet(DataMem, DataRef, s, value)} :
        /\ rawData' = IF r.threw THEN r.mem["data"] ELSE Deref(r.mem, r.ret)
        /\ last' = [NoCall EXCEPT !.fn = "deepSet", !.target = rawData, !.path = StringPath(s),
                                  !.value = value, !.threw = r.threw,
                                  !.ret = IF r.threw THEN Undefined ELSE r.ret,
                                  !.out = IF r.threw THEN Undefined ELSE Deref(r.mem, r.ret),
                                  !.arg = r.mem["data"]]
  /\ pc' = "called"
  /\ used' = used + Charge(n)
  /\ UNCHANGED initialData

\* _get($data, key, defaultValue)
Get(n, path, defaultValue) ==
  /\ pc = "idle"
  /\ \E r \in {_get(DataMem, DataRef, path, defaultValue)} :
        last' = [NoCall EXCEPT !.fn = "_get", !.target = rawData, !.path = path,
                               !.value = defaultValue, !.ret = r,
                               !.out = Deref(DataMem, r), !.arg = rawData]
  /\ pc' = "called"
  /\ UNCHANGED <<rawData, initialData, used>>

\* The handler returns; the store keeps its data.
Return ==
  /\ pc = "called"
  /\ pc' = "idle"
  /\ last' = NoCall
  /\ UNCHANGED <<rawData, initialData, used>>

\* reset(): rawData.update(() => _initialData)
Reset ==
  /\ pc = "called"
  /\ rawData' = initialData
  /\ pc' = "idle"
  /\ last' = NoCall
  /\ UNCHANGED <<initialData, used>>

Next ==
  \/ pc = "idle" /\ used < MaxKeys /\ \E n \in 0..(MaxKeys - used) : \E path \in Paths[n] : \E value \in Values :
       Update(n, path, value)
  \/ pc = "idle" /\ used < MaxKeys /\ \E n \in 0..(MaxKeys - used) : \E s \in DottedPaths[n] : \E value \in Values :
       DeepSet(n, s, value)
  \/ pc = "idle" /\ used < MaxKeys /\ \E n \in 0..(MaxKeys - used) : \E path \in Paths[n] : \E d \in DefaultValues :
       Get(n, path, d)
  \/ Return
  \/ Reset

Spec == Init /\ [][Next]_vars

(***************************************************************************)
(* The calls made through the proxies                                      *)
(***************************************************************************)
\* const keys = callback(keysProxy(seed))(): the seed is a new empty object
\* (Object.create(null), as createForm passes) or the store's data.
Capture(n, chain, onData) ==
  /\ pc = "idle"
  /\ \E r \in {IF onData THEN keysGetter(DataMem, DataRef, chain)
               ELSE keysGetter("data" :> EmptyObject, Ref("data", <<>>), chain)} :
        /\ rawData' = IF onData THEN r.mem["data"] ELSE rawData
        /\ last' = [NoCall EXCEPT !.fn = "keysProxy", !.chain = chain,
                                  !.target = IF onData THEN rawData ELSE EmptyObject,
                                  !.threw = r.threw, !.isKeys = ~r.threw, !.keys = r.keys,
                                  !.arg = r.mem["data"]]
  /\ pc' = "called"
  /\ used' = IF onData THEN used + Charge(n) ELSE used
  /\ UNCHANGED initialData

\* handleChange: const newData = get(data) (earlier version: get(data) ?? {});
\* const keys = draftCallback(createDraftProxy(newData))(value); data.set(newData)
DraftWrite(n, chain, value, earlier) ==
  /\ pc = "idle"
  /\ LET fresh == earlier /\ IsNullish(rawData)
     IN \E r \in {IF fresh
                  THEN draftCall("literal" :> EmptyObject, Ref("literal", <<>>), chain, value, earlier)
                  ELSE draftCall(DataMem, DataRef, chain, value, earlier)} :
          /\ rawData' = IF r.threw THEN (IF fresh THEN rawData ELSE r.mem["data"])
                        ELSE IF fresh THEN r.mem["literal"] ELSE r.mem["data"]
          /\ last' = [NoCall EXCEPT !.fn = "createDraftProxy", !.chain = chain,
                                    !.target = IF fresh THEN EmptyObject ELSE rawData,
                                    !.value = value, !.threw = r.threw, !.earlier = earlier,
                                    !.isKeys = r.isKeys, !.keys = r.keys, !.ret = r.ret,
                                    !.out = Deref(r.mem, r.ret),
                                    !.arg = IF fresh THEN r.mem["literal"] ELSE r.mem["data"]]
  /\ pc' = "called"
  /\ used' = used + Charge(n)
  /\ UNCHANGED initialData

\* error: const keys = draftCallback(createDraftProxy(current))(), the proxy
\* bound to the value of the store the action subscribes to; the accesses of
\* the callback are made on that very object.
DraftRead(n, chain, earlier) ==
  /\ pc = "idle"
  /\ \E r \in {draftCall(DataMem, DataRef, chain, Undefined, earlier)} :
        /\ rawData' = r.mem["data"]
        /\ last' = [NoCall EXCEPT !.fn = "createDraftProxy", !.chain = chain,
                                  !.target = rawData, !.value = Undefined, !.threw = r.threw,
                                  !.earlier = earlier, !.isKeys = r.isKeys, !.keys = r.keys, !.ret = r.ret,
                                  !.out = Deref(r.mem, r.ret), !.arg = r.mem["data"]]
  /\ pc' = "called"
  /\ used' = used + Charge(n)
  /\ UNCHANGED initialData

NextProxy ==
  \/ pc = "idle" /\ used < MaxKeys /\ \E n \in 1..(MaxKeys - used) : \E chain \in Chains[n] :
       \E onData \in BOOLEAN : Capture(n, chain, onData)
  \/ pc = "idle" /\ used < MaxKeys /\ \E n \in 1..(MaxKeys - used) : \E chain \in Chains[n] :
       \E value \in Arguments : \E earlier \in BOOLEAN : DraftWrite(n, chain, value, earlier)
  \/ pc = "idle" /\ used < MaxKeys /\ \E n \in 1..(MaxKeys - used) : \E chain \in Chains[n] :
       \E earlier \in BOOLEAN : DraftRead(n, chain, earlier)
  \/ Return
  \/ Reset

SpecProxy == InitProxy /\ [][NextProxy]_vars

(***************************************************************************)
(* The accessors one trap at a time                                        *)
(* last is the accessor the path expression holds: its key chain and the   *)
(* object of its closure (prev; object in lib/proxy.ts).  pc tells whether *)
(* the accessor held has been invoked ("terminated") or not                *)
(* ("unterminated").  The traps test nothing of the kind, so property      *)
(* access and invocation are possible on every accessor held.              *)
(***************************************************************************)
HoldsAccessor == pc \in {"unterminated", "terminated"}

\* The memory of the expression: the seed of keysProxy is the expression's
\* own object (last.arg), createDraftProxy is bound to the store's data.
AccessorMem == "data" :> (IF last.fn = "keysProxy" THEN last.arg ELSE rawData)

\* keysProxy(Object.create(null)).p
OpenKeys(p) ==
  /\ pc = "idle"
  /\ \E acc \in {keysProxyGet(Ref("data", <<>>), p)} :
       last' = [NoCall EXCEPT !.fn = "keysProxy", !.target = EmptyObject, !.arg = EmptyObject,
                              !.chain = acc.properties, !.prev = acc.object]
  /\ pc' = "unterminated"
  /\ used' = used + 1
  /\ UNCHANGED <<rawData, initialData>>

\* createDraftProxy(get(data)).p
OpenDraft(p) ==
  /\ pc = "idle"
  /\ \E acc \in {createDraftProxyGet(DataRef, p)} :
       last' = [NoCall EXCEPT !.fn = "createDraftProxy", !.target = rawData, !.arg = rawData,
                              !.chain = acc.keys, !.prev = acc.prev]
  /\ pc' = "unterminated"
  /\ used' = used + 1
  /\ UNCHANGED <<rawData, initialData>>

\* accessor.p: the get trap of innerKeysProxy or of createInnerProxy.  It
\* returns a new accessor, which the expression holds from then on; a
\* TypeError ends the expression.
Access(p) ==
  /\ HoldsAccessor
  /\ \E g \in {IF last.fn = "keysProxy"
               THEN LET t == innerKeysProxyGet(AccessorMem, [object |-> last.prev, properties |-> last.chain], p)
                    IN [mem |-> t.mem, threw |-> t.threw, prev |-> t.acc.object, keys |-> t.acc.properties]
               ELSE LET t == createInnerProxyGet(AccessorMem, [prev |-> last.prev, keys |-> last.chain], p)
                    IN [mem |-> t.mem, threw |-> t.threw, prev |-> t.acc.prev, keys |-> t.acc.keys]} :
       IF g.threw
       THEN /\ pc' = "idle"
            /\ last' = [last EXCEPT !.threw = TRUE]
            /\ UNCHANGED rawData
       ELSE /\ pc' = "unterminated"
            /\ last' = [NoCall EXCEPT !.fn = last.fn, !.target = last.target,
                                      !.arg = g.mem["data"], !.chain = g.keys, !.prev = g.prev]
            /\ rawData' = IF last.fn = "keysProxy" THEN rawData ELSE g.mem["data"]
  /\ used' = used + 1
  /\ UNCHANGED initialData

\* accessor(arg): the apply trap of innerKeysProxy (the argument is ignored)
\* or of createInnerProxy.
Invoke(arg) ==
  /\ HoldsAccessor
  /\ \E r \in {IF last.fn = "keysProxy"
               THEN [mem |-> AccessorMem, threw |-> FALSE, isKeys |-> TRUE,
                     keys |-> innerKeysProxyApply([object |-> last.prev, properties |-> last.chain]),
                     ret |-> Undefined]
               ELSE createInnerProxyApply(AccessorMem, [prev |-> last.prev, keys |-> last.chain],
                                          arg, FALSE)} :
       /\ pc' = IF r.threw THEN "idle" ELSE "terminated"
       /\ last' = [last EXCEPT !.value = arg, !.threw = r.threw, !.isKeys = r.isKeys,
                               !.keys = r.keys, !.out = Deref(r.mem, r.ret),
                               !.arg = r.mem["data"]]
       /\ rawData' = IF last.fn = "keysProxy" THEN rawData ELSE r.mem["data"]
  /\ UNCHANGED <<initialData, used>>

\* The expression is over and its accessor is dropped.
Discard ==
  /\ pc = "terminated"
  /\ pc' = "idle"
  /\ last' = NoCall
  /\ UNCHANGED <<rawData, initialData, used>>

NextAccessor ==
  \/ pc = "idle" /\ used < MaxKeys /\ \E p \in ProxyKeys : OpenKeys(p)
  \/ pc = "idle" /\ used < MaxKeys /\ \E p \in ProxyKeys : OpenDraft(p)
  \/ used < MaxKeys /\ \E p \in ProxyKeys : Access(p)
  \/ \E arg \in Arguments \cup {Undefined} : Invoke(arg)
  \/ Discard

SpecAccessor == InitProxy /\ [][NextAccessor]_vars

(***************************************************************************)
(* Vocabulary of the properties                                            *)
(***************************************************************************)
\* The canonical key list of a path: a string is cut at every run of '.',
\* '[' and ']' and the empty pieces dropped; an array is its own key list.
RECURSIVE CanonicalFrom(_, _, _)
CanonicalFrom(s, i, cur) ==
  LET piece == IF cur = <<>> THEN <<>> ELSE <<cur>>
  IN IF i > Len(s) THEN piece
     ELSE IF s[i] \in {".", "[", "]"} THEN piece \o CanonicalFrom(s, i + 1, <<>>)
     ELSE CanonicalFrom(s, i + 1, Append(cur, s[i]))

CanonicalKeys(path) == IF path.isArray THEN path.l ELSE CanonicalFrom(path.s, 1, <<>>)

\* A plain non-negative integer: "0", or digits not starting with "0".
PlainInteger(k) ==
  /\ k # <<>>
  /\ \A i \in 1..Len(k) : k[i] \in Digits
  /\ (k[1] = "0" => Len(k) = 1)

\* Numeric-looking: converting the key to a number does not give NaN.  For
\* the keys of the model these are the runs of digits and the empty key.
NumericLooking(k) == \A i \in 1..Len(k) : k[i] \in Digits

\* The property a numeric-looking key addresses once it is a number.
RECURSIVE IndexOf(_)
IndexOf(k) ==
  IF Len(k) > 1 /\ k[1] = "0" THEN IndexOf(Tail(k)) ELSE IF k = <<>> THEN <<"0">> ELSE k

\* The keys at which the last write stepped through the target: deepSet
\* turns numeric-looking keys into numbers, _update keeps the strings.
WrittenKeys ==
  LET ks == CanonicalKeys(last.path)
  IN IF last.fn = "deepSet"
     THEN [i \in 1..Len(ks) |-> IF NumericLooking(ks[i]) THEN IndexOf(ks[i]) ELSE ks[i]]
     ELSE ks

Prefix(ks, i) == SubSeq(ks, 1, i)

\* The root a write starts from: an absent target counts as an empty mapping.
StartRoot(target) == IF IsNullish(target) THEN EmptyObject ELSE target

IsWrite == last.fn \in {"_update", "deepSet"}

\* The last call read back the path it wrote: _get on the returned root.
ReadBack(defaultValue) ==
  Deref("root" :> last.out, _get("root" :> last.out, Held(last.out, "root", <<>>), last.path, defaultValue))

(***************************************************************************)
(* C1  Round-trip                                                          *)
(***************************************************************************)
\* C1: for every target T (absent included), every path P with at least one
\* key and every value V, reading P from the root returned by write(T, P, V)
\* returns exactly V.
C1_RoundTrip ==
  (last.fn = "_update" /\ Len(CanonicalKeys(last.path)) >= 1)
    => (~last.threw /\ ReadBack(Undefined) = last.value)

(***************************************************************************)
(* C2  Default fallback                                                    *)
(***************************************************************************)
\* The walk of a read falls short: a null or undefined node is met while
\* keys remain, or the value at the end of the path is undefined.
FallsShort(target, ks) ==
  \/ \E i \in 0..(Len(ks) - 1) : IsNullish(Lookup(target, Prefix(ks, i)))
  \/ Lookup(target, ks) = Undefined

\* C2: a read whose walk meets null or undefined before the keys are
\* exhausted, or ends on undefined, returns the default D; in particular a
\* read of any path from an absent or empty target returns D; and a read
\* never modifies the target.
C2_DefaultFallback ==
  last.fn = "_get" =>
    /\ ~last.threw
    /\ last.arg = last.target
    /\ FallsShort(last.target, CanonicalKeys(last.path)) => last.out = last.value

(***************************************************************************)
(* C3  Container inference                                                 *)
(***************************************************************************)
\* The write created the node at key i of its path: nothing was there
\* before, a container is there afterwards.
Created(ks, i) ==
  /\ IsNullish(Lookup(StartRoot(last.target), Prefix(ks, i)))
  /\ IsContainer(Lookup(last.out, Prefix(ks, i)))

KindFor(numeric) == IF numeric THEN "array" ELSE "object"

\* C3: when a write creates a missing intermediate node at key i of the
\* path, the new node is a sequence if the next key is numeric-looking and a
\* mapping otherwise, and it holds nothing but that next key; so writing V
\* at "a.0.b" on an empty root gives {a: [{b: V}]} and writing V at "a.b"
\* gives {a: {b: V}}.
C3_ContainerInference ==
  (IsWrite /\ ~last.threw) =>
    LET ks == WrittenKeys
    IN /\ \A i \in 1..(Len(ks) - 1) :
            Created(ks, i) =>
              LET node == Lookup(last.out, Prefix(ks, i))
              IN /\ node.t = KindFor(NumericLooking(ks[i + 1]))
                 /\ DOMAIN node.m = {ks[i + 1]}
       /\ (last.target = EmptyObject /\ last.path = StringPath(Dotted(<<a, <<"0">>, b>>)))
            => last.out = Object(a :> Array(<<"0">> :> Object(b :> last.value)))
       /\ (last.target = EmptyObject /\ last.path = StringPath(Dotted(<<a, b>>)))
            => last.out = Object(a :> Object(b :> last.value))

\* A write on an empty root made a sequence and, inside it, a mapping.
C3_Witness ==
  /\ IsWrite /\ ~last.threw
  /\ last.target = EmptyObject
  /\ Len(WrittenKeys) = 3
  /\ Created(WrittenKeys, 1) /\ Lookup(last.out, Prefix(WrittenKeys, 1)).t = "array"
  /\ Created(WrittenKeys, 2) /\ Lookup(last.out, Prefix(WrittenKeys, 2)).t = "object"

(***************************************************************************)
(* C4  Overwrite on conflict                                               *)
(***************************************************************************)
\* Key i of the path is an intermediate key that holds a primitive in the
\* target, every node above it being a container.
HoldsPrimitive(ks, i) ==
  /\ i < Len(ks)
  /\ \A j \in 0..(i - 1) : IsContainer(Lookup(StartRoot(last.target), Prefix(ks, j)))
  /\ LET v == Lookup(StartRoot(last.target), Prefix(ks, i))
     IN v # Undefined /\ ~IsContainer(v)

\* C4: in every write variant, a write whose path has an intermediate key
\* holding a primitive replaces that primitive with a fresh container and
\* continues, so that the value ends up at the path; writing V at "a.b"
\* when a is 5 gives {a: {b: V}}.
C4_OverwriteOnConflict ==
  IsWrite =>
    LET ks == WrittenKeys
    IN /\ \A i \in 1..(Len(ks) - 1) :
            HoldsPrimitive(ks, i) =>
              /\ ~last.threw
              /\ IsContainer(Lookup(last.out, Prefix(ks, i)))
              /\ Lookup(last.out, ks) = last.value
       /\ (last.target = Object(a :> JSNumber(5)) /\ last.path = StringPath(Dotted(<<a, b>>)))
            => last.out = Object(a :> Object(b :> last.value))

(***************************************************************************)
(* C5  No-op on an empty path                                              *)
(***************************************************************************)
\* C5: a write whose path has zero keys returns a root structurally equal
\* to the target (the empty mapping for an absent target) and assigns V
\* nowhere; a write with at least one key that returns has V at the path.
C5_NoOpOnEmptyPath ==
  IsWrite =>
    LET ks == WrittenKeys
    IN IF Len(ks) = 0
       THEN ~last.threw /\ last.out = StartRoot(last.target)
       ELSE ~last.threw => Lookup(last.out, ks) = last.value

(***************************************************************************)
(* C6  The immutable write leaves its input untouched                      *)
(***************************************************************************)
\* C6: after write(T, P, V) the target T is structurally what it was before
\* the call at every path, and the returned root is an object of its own,
\* not T; this holds for each write of a sequence of writes applied to the
\* successive results.
C6_InputUntouched ==
  last.fn = "_update" =>
    /\ last.arg = last.target
    /\ last.ret # Ref("data", <<>>)
    /\ IsRef(last.ret) /\ last.ret.cell # "data"

\* A write that changed something, applied to the result of an earlier write.
C6_Witness ==
  /\ last.fn = "_update" /\ ~last.threw
  /\ last.out # last.target
  /\ last.target # initialData
  /\ IsContainer(last.target)
  /\ used >= 2

(***************************************************************************)
(* C10  Numeric key classification                                         *)
(***************************************************************************)
\* C10: the predicate that chooses between sequence and mapping takes a key
\* for numeric exactly when the key is a plain non-negative integer: "0" is
\* numeric, "01" and "a1" are not.  Seen on the containers the immutable
\* write creates: a sequence exactly when the next key is a plain integer.
C10_NumericClassification ==
  (last.fn = "_update" /\ ~last.threw) =>
    LET ks == WrittenKeys
    IN \A i \in 1..(Len(ks) - 1) :
         Created(ks, i) =>
           Lookup(last.out, Prefix(ks, i)).t = KindFor(PlainInteger(ks[i + 1]))

(***************************************************************************)
(* C7  Key-capture fidelity of the key-only accessor                       *)
(***************************************************************************)
\* C7: invoking the key-only accessor reached through the chain k1...kn
\* (n >= 1) returns exactly the list [k1, ..., kn], whatever the seed
\* target holds.
C7_KeyCaptureFidelity ==
  (last.fn = "keysProxy" /\ IsContainer(last.target)) =>
    /\ ~last.threw
    /\ last.isKeys /\ last.keys = last.chain

(***************************************************************************)
(* C8  Write through the read-write accessor                               *)
(***************************************************************************)
IsDraftWrite == last.fn = "createDraftProxy" /\ last.value # Undefined
IsDraftRead == last.fn = "createDraftProxy" /\ last.value = Undefined

\* C8: invoking the read-write accessor reached through the chain K of a
\* bound target with one defined argument V stores V at K inside the target
\* (creating the missing intermediate containers) and returns K; with
\* user.name.first and "Ann" on an empty object the target becomes
\* {user: {name: {first: "Ann"}}}.
C8_AccessorWrite ==
  (IsDraftWrite /\ IsContainer(last.target)) =>
    /\ ~last.threw
    /\ last.isKeys /\ last.keys = last.chain
    /\ Lookup(last.arg, last.chain) = last.value
    /\ (last.target = EmptyObject /\ last.chain = <<user, name, first>>)
         => last.arg = Object(user :> Object(name :> Object(first :> last.value)))

(***************************************************************************)
(* C9  Read through the read-write accessor                                *)
(***************************************************************************)
\* The target with an empty container put at every intermediate key of ks
\* that is null or undefined: a sequence when the key after it is
\* numeric-looking, a mapping otherwise.
RECURSIVE WithPlaceholders(_, _)
WithPlaceholders(tree, ks) ==
  IF Len(ks) <= 1 \/ ~IsContainer(tree) THEN tree
  ELSE LET child == Prop(tree, ks[1])
           node == IF IsNullish(child)
                   THEN [t |-> KindFor(NumericLooking(ks[2])), m |-> EmptyMap]
                   ELSE child
       IN WithProp(tree, ks[1], WithPlaceholders(node, Tail(ks)))

\* The accesses of the chain fault: there is no target to step into, or a
\* key before the last two holds a primitive that lacks the key after it.
ReadFaults ==
  LET ks == last.chain
  IN \/ IsNullish(last.target) /\ (Len(ks) >= 2 \/ ~last.earlier)
     \/ \E j \in 1..(Len(ks) - 2) :
          LET node == Lookup(last.target, Prefix(ks, j))
          IN /\ ~IsNullish(node) /\ ~IsContainer(node)
             /\ IsNullish(Prop(node, ks[j + 1]))

C11_NoFaults ==
  (last.fn # "none" /\ last.target # Null) => ~last.threw

(***************************************************************************)
(* C12  Resolver/accessor consistency                                      *)
(***************************************************************************)
\* The root the immutable write of the value at the chain produces from the
\* target the accessor started from.
ResolverRoot ==
  LET r == _update("data" :> last.target, Held(last.target, "data", <<>>),
                   ArrayPath(last.chain), last.value)
  IN Deref(r.mem, r.ret)

\* C12: for every starting target the accessor is bound to, every key chain
\* K (at least one key) and every defined value V, writing V through the
\* read-write accessor leaves the bound target equal to the root the
\* resolver's write of V at K gives from the same starting target: both
\* create and replace the same intermediate nodes.
C12_ResolverAccessorConsistency ==
  (IsDraftWrite /\ IsContainer(last.target)) => (~last.threw /\ last.arg = ResolverRoot)

(***************************************************************************)
(* C13  Accessor lifecycle                                                 *)
(***************************************************************************)
\* C13: an accessor is unterminated or terminated; once it has been invoked
\* it is not extended by a further property access and not invoked a second
\* time to apply another value: the only thing that happens to a terminated
\* accessor is that it is dropped.
C13_AccessorLifecycle ==
  [][pc = "terminated" => pc' \notin {"unterminated", "terminated"}]_vars

====
